---- MODULE Spec2Model ----
(***************************************************************************)
(* Model of the Upstox live-subscription broker of PyalgoKite (src/app.py).*)
(*                                                                         *)
(* The broker is three module-level globals (upstox_ws_thread,             *)
(* upstox_subscribed_instrument_keys, upstox_ws_shutdown_event), the       *)
(* socket handlers handle_subscribe_upstox_market_data and                 *)
(* handle_unsubscribe_upstox_market_data, the watchlist-save path that     *)
(* calls the subscribe handler, and the background threads the subscribe   *)
(* handler starts.  Handlers run on the server's worker threads with no    *)
(* lock, so a handler is modelled as a sequence of steps, one per line (or *)
(* group of lines) that touches a global, and the steps of different       *)
(* handlers and of the background threads interleave.                      *)
(***************************************************************************)
EXTENDS Integers, FiniteSets, Sequences, TLC

\* ---------------------------------------------------------------- bounds
\* Total number of requests that reach the subscribe handler in one run.
MaxRequests == 2

\* Instrument keys a client may name.
Keys == {"X", "Y"}

\* Request-handling workers that may run a handler at the same time.
Procs == {1, 2}

\* Python None for a thread reference / a threading.Event reference.
None == 0

Ids == 1..MaxRequests

VARIABLES
    upstox_ws_thread,                   \* None or the id of a Thread object
    upstox_subscribed_instrument_keys,  \* set of instrument keys
    upstox_ws_shutdown_event,           \* None or the id of an Event object
    threads,                            \* Thread objects ever created
    signaled,                           \* Event objects whose flag is set
    nEvents,                            \* Event objects allocated so far
    nReq,                               \* requests started so far
    h                                   \* per worker: position and locals

\* TokenManager (src/token_manager.py)
VARIABLES
    access_token,                       \* TokenManager._access_token
    token_expiry,                       \* TokenManager._token_expiry
    token_file,                         \* the file upstox_token.json
    now,                                \* datetime.now()
    tm                                  \* per caller: position and locals

\* process_upstox_feed (src/app.py)
VARIABLES
    feed_response,                      \* the FeedResponse being processed
    pending,                            \* instruments not yet processed
    emitted,                            \* events passed to emit_callback
    listeners,                          \* Socket.IO clients now connected
    received                            \* per client: the events delivered

\* The Flask session of one browser (src/app.py)
VARIABLES
    session,                            \* the session dict
    last                                \* the last request and how it ended

\* BacktestService.calculate_metrics (src/backtest_service.py)
VARIABLES
    df_index,                           \* df.index, in the order of its rows
    buy_signals_dates,                  \* dates of the buy signals
    sell_signals_dates,                 \* dates of the sell signals
    all_signal_dates,                   \* both, sorted, without repeats
    current_position,                   \* equity loop: 0 flat, 1 long
    printed,                            \* the BUY and SELL lines printed
    position_open,                      \* trade loop: a trade is open
    entry_date,                         \* trade loop: date of the open trade
    trades,                             \* the trade list
    bt                                  \* position in calculate_metrics

vars == <<upstox_ws_thread, upstox_subscribed_instrument_keys,
          upstox_ws_shutdown_event, threads, signaled, nEvents, nReq, h,
          access_token, token_expiry, token_file, now, tm,
          feed_response, pending, emitted, listeners, received,
          session, last,
          df_index, buy_signals_dates, sell_signals_dates, all_signal_dates,
          current_position, printed, position_open, entry_date, trades, bt>>

\* The variables of the subscription broker, of the TokenManager and of the
\* feed processing; each part leaves the variables of the other parts alone.
broker_vars == <<upstox_ws_thread, upstox_subscribed_instrument_keys,
                 upstox_ws_shutdown_event, threads, signaled, nEvents, nReq, h>>

token_vars == <<access_token, token_expiry, token_file, now, tm>>

feed_vars == <<feed_response, pending, emitted, listeners, received>>

session_vars == <<session, last>>

backtest_vars == <<df_index, buy_signals_dates, sell_signals_dates,
                   all_signal_dates, current_position, printed,
                   position_open, entry_date, trades, bt>>

outside_broker == <<token_vars, feed_vars, session_vars, backtest_vars>>

outside_token == <<broker_vars, feed_vars, session_vars, backtest_vars>>

outside_feed == <<broker_vars, token_vars, session_vars, backtest_vars>>

outside_session == <<broker_vars, token_vars, feed_vars, backtest_vars>>

outside_backtest == <<broker_vars, token_vars, feed_vars, session_vars>>

\* ------------------------------------------------- background thread
\* st:   "none"       no such Thread object yet
\*       "created"    Thread(...) constructed, not started
\*       "started"    start() called, arguments of the streaming call not
\*                    yet evaluated
\*       "args"       list(upstox_subscribed_instrument_keys) evaluated
\*       "connecting" inside connect_and_stream_market_data, session not open
\*       "connected"  session open, initial subscription sent
\*       "exited"     run_websocket_loop_in_thread returned
\* keys: the instrument list the thread passed to the streaming call
\* ev:   the Event the thread passed to the streaming call
\* own:  the Event allocated by the request that constructed the thread
\* Only st is observable from outside a thread (is_alive); the other fields
\* are the thread's own and are dropped when it exits.
NoThread == [st |-> "none", keys |-> {}, ev |-> None, own |-> None]

ExitedThread == [NoThread EXCEPT !.st = "exited"]

AliveStates == {"started", "args", "connecting", "connected"}

\* Thread.is_alive()
is_alive(t) == threads[t].st \in AliveStates

\* The thread holds an upstream session.
HoldsSession(t) == threads[t].st \in {"connecting", "connected"}

LiveThreads == {t \in Ids : is_alive(t)}

nThreads == Cardinality({t \in Ids : threads[t].st # "none"})

\* ------------------------------------------------- handler locals
\* pc:     "idle" or the line of handle_subscribe_upstox_market_data the
\*         worker executes next
\* kind:   "sub", "unsub" or "save": the entry point of the request
\* arg:    the instrument keys of the request
\* req:    instrument_keys_to_subscribe of the subscribe handler
\*         (kind, arg and req are kept up to the store of line 260)
\* target: the thread object join() was called on (None if none)
\* timedout: join() returned with the thread still alive
\* myev:   the Event this request allocated at line 291
\* out:    how the last request of this worker ended: "status" or "error"
\*         for the event it emitted last, "none" for a return without an
\*         event, "exception" for an exception that left the handler
\* superseded: history of the request, not a variable of the code (which
\*         keeps no generation): another request has stored its set at line
\*         260 after this request stored its own
IdleH == [pc |-> "idle", kind |-> "sub", arg |-> {}, req |-> {},
          target |-> None, timedout |-> FALSE, myev |-> None,
          out |-> "none", superseded |-> FALSE]

\* The positions of the subscribe handler after its store of line 260.
PostStore == {"l263", "l291", "l309", "l310"}

\* ------------------------------------------------- TokenManager state
\* Time is counted in units of 300 seconds, from 1 to MaxTime.
MaxTime == 3

\* The 5 minute buffer of set_token (line 75), one unit of time.
ExpiryBuffer == 1

\* Python None for _token_expiry and for a missing 'expires_at'; every
\* datetime is greater.
NoExpiry == -1

\* Access tokens.
Tokens == {1, 2}

\* Values of expires_in (in units of time) a caller passes: a token that is
\* expired on arrival, and a token that lasts one unit past the buffer.
ExpiresIn == {0, 2}

\* Threads that call the TokenManager.
Callers == {1, 2}

\* The token file: absent, empty or unreadable (opened for writing and not
\* yet written), or the JSON object save_token writes.
NoFile == [st |-> "absent", access_token |-> None, expires_at |-> NoExpiry]

EmptyFile == [NoFile EXCEPT !.st = "empty"]

JsonFile(tok, exp) == [st |-> "json", access_token |-> tok, expires_at |-> exp]

\* A caller of the TokenManager.
\* pc:   "idle" or the line of token_manager.py the caller executes next
\* call: the method being executed
\* access_token, expires_in: the arguments of set_token / save_token
\* stored_data: what get_token loaded from the file (line 49)
\* ret:  what the last get_token of this caller returned
\* raised: the last call of this caller ended with an exception
IdleCall == [pc |-> "idle", call |-> "none", access_token |-> None,
             expires_in |-> 0, stored_data |-> NoFile, ret |-> None,
             raised |-> FALSE]

\* The parts of the program at rest.
BrokerAtRest ==
    /\ upstox_ws_thread = None
    /\ upstox_subscribed_instrument_keys = {}
    /\ upstox_ws_shutdown_event = None
    /\ threads = [t \in Ids |-> NoThread]
    /\ signaled = {}
    /\ nEvents = 0
    /\ nReq = 0
    /\ h = [p \in Procs |-> IdleH]

\* TokenManager.__new__, lines 26-30: no token in memory.
TokenAtRest ==
    /\ access_token = None
    /\ token_expiry = NoExpiry
    /\ token_file = NoFile
    /\ now = 1
    /\ tm = [c \in Callers |-> IdleCall]

\* Browser sessions that may hold a Socket.IO connection to the server.
Listeners == {1, 2}

FeedAtRest ==
    /\ feed_response = << >>
    /\ pending = {}
    /\ emitted = << >>
    /\ listeners = {}
    /\ received = [l \in Listeners |-> << >>]

\* A browser that has not been here before: an empty session.
EmptySession == [k \in {} |-> None]

SessionAtRest ==
    /\ session = EmptySession
    /\ last = [route |-> "none", outcome |-> "none"]

\* No backtest is running.
BacktestAtRest ==
    /\ df_index = << >>
    /\ buy_signals_dates = {}
    /\ sell_signals_dates = {}
    /\ all_signal_dates = << >>
    /\ current_position = 0
    /\ printed = << >>
    /\ position_open = FALSE
    /\ entry_date = None
    /\ trades = << >>
    /\ bt = [pc |-> "idle", i |-> 0]

Init ==
    /\ BrokerAtRest
    /\ TokenAtRest
    /\ FeedAtRest
    /\ SessionAtRest
    /\ BacktestAtRest

\* ------------------------------------------------- request entry points
SetH(p, r) == h' = [h EXCEPT ![p] = r]

Globals == <<upstox_ws_thread, upstox_subscribed_instrument_keys,
             upstox_ws_shutdown_event>>

\* The locals of a request that enters handle_subscribe_upstox_market_data.
Enter(kind, arg, req) ==
    [IdleH EXCEPT !.pc = "l245", !.kind = kind, !.arg = arg, !.req = req]

\* A request is taken by the first free worker.
Free(p) ==
    /\ h[p].pc = "idle"
    /\ \A q \in Procs : q < p => h[q].pc # "idle"

\* A request that has returned: the worker is free again.  `out` names what
\* the request emitted last ("status", "error", "invalid" for the error
\* event of lines 238 and 323, "no change" for the status event of line 345),
\* "none" for nothing and
\* "exception" for an exception leaving the handler.
Return(out) == [IdleH EXCEPT !.out = out]

\* Variant of lines 236-240 that rejects an empty list as well, as the
\* comment and the messages of lines 237-239 have it.
Subscribe_RejectsEmpty(p, isList, ks) ==
    /\ Free(p)
    /\ nReq < MaxRequests
    /\ nReq' = nReq + 1
    /\ IF isList /\ ks # {}
          THEN SetH(p, Enter("sub", ks, ks))
          ELSE SetH(p, Return("invalid"))
    /\ UNCHANGED <<Globals, threads, signaled, nEvents>>
    /\ UNCHANGED outside_broker

\* handle_subscribe_upstox_market_data, lines 236-242: a client's subscribe
\* request.  instrument_keys that is not a list is rejected (isList = FALSE);
\* a list, empty or not, goes on to line 245.
Subscribe(p, isList, ks) ==
    /\ Free(p)
    /\ nReq < MaxRequests
    /\ nReq' = nReq + 1
    /\ IF isList
          THEN SetH(p, Enter("sub", ks, ks))
          ELSE SetH(p, Return("invalid"))
    /\ UNCHANGED <<Globals, threads, signaled, nEvents>>
    /\ UNCHANGED outside_broker

\* Variant of lines 331-335 that removes nothing from the copy.
UnsubscribeResult_RemovesNothing(current, ks) == current

\* The set handle_unsubscribe_upstox_market_data passes on: the copy of the
\* desired set with the requested keys removed (lines 331-335).
UnsubscribeResult(current, ks) == current \ ks

\* made_change of handle_unsubscribe_upstox_market_data (lines 329-335).
MadeChange(current, ks) == current \cap ks # {}

\* Variant of handle_unsubscribe_upstox_market_data that calls the subscribe
\* handler whether or not a key was removed.
Unsubscribe_AlwaysReconnects(p, isList, ks) ==
    /\ Free(p)
    /\ nReq < MaxRequests
    /\ nReq' = nReq + 1
    /\ LET current == upstox_subscribed_instrument_keys IN
       IF ~isList
          THEN SetH(p, Return("invalid"))
          ELSE SetH(p, Enter("unsub", ks, UnsubscribeResult(current, ks)))
    /\ UNCHANGED <<Globals, threads, signaled, nEvents>>
    /\ UNCHANGED outside_broker

\* handle_unsubscribe_upstox_market_data, lines 321-347.  The desired set is
\* read once, at line 331; with a change the subscribe handler is called with
\* the reduced set, without one only a status event is emitted.
Unsubscribe(p, isList, ks) ==
    /\ Free(p)
    /\ nReq < MaxRequests
    /\ nReq' = nReq + 1
    /\ LET current == upstox_subscribed_instrument_keys IN
       IF ~isList
          THEN SetH(p, Return("invalid"))
          ELSE IF MadeChange(current, ks)
                  THEN SetH(p, Enter("unsub", ks,
                                     UnsubscribeResult(current, ks)))
                  ELSE SetH(p, Return("no change"))
    /\ UNCHANGED <<Globals, threads, signaled, nEvents>>
    /\ UNCHANGED outside_broker

\* save_watchlist, lines 816-821: the watchlist gained the instruments `added`
\* (non-empty, session authenticated with Upstox).  The subscribe handler is
\* called with the union unless the union equals the desired set.
SaveWatchlist(p, added) ==
    /\ Free(p)
    /\ nReq < MaxRequests
    /\ added # {}
    /\ nReq' = nReq + 1
    /\ LET current == upstox_subscribed_instrument_keys
           updated_instruments == current \cup added IN
       IF updated_instruments # current
          THEN SetH(p, Enter("save", added, updated_instruments))
          ELSE SetH(p, Return("none"))
    /\ UNCHANGED <<Globals, threads, signaled, nEvents>>
    /\ UNCHANGED outside_broker

\* ------------------------------------------------- the subscribe handler
\* Variant of line 245 that never tears down: the running thread is left
\* alone and the handler goes straight on to line 256.
L245_NoTeardown(p) ==
    /\ h[p].pc = "l245"
    /\ SetH(p, [h[p] EXCEPT !.pc = "l256"])
    /\ UNCHANGED <<Globals, threads, signaled, nEvents, nReq>>
    /\ UNCHANGED outside_broker

\* Variant of line 245 that tests the reference only: a thread that has
\* ended is signalled and joined like a live one.
L245_JoinsDead(p) ==
    /\ h[p].pc = "l245"
    /\ IF upstox_ws_thread # None
          THEN SetH(p, [h[p] EXCEPT !.pc = "l247"])
          ELSE SetH(p, [h[p] EXCEPT !.pc = "l256"])
    /\ UNCHANGED <<Globals, threads, signaled, nEvents, nReq>>
    /\ UNCHANGED outside_broker

\* Line 245: if upstox_ws_thread and upstox_ws_thread.is_alive().
L245(p) ==
    /\ h[p].pc = "l245"
    /\ IF upstox_ws_thread # None /\ is_alive(upstox_ws_thread)
          THEN SetH(p, [h[p] EXCEPT !.pc = "l247"])
          ELSE SetH(p, [h[p] EXCEPT !.pc = "l256"])
    /\ UNCHANGED <<Globals, threads, signaled, nEvents, nReq>>
    /\ UNCHANGED outside_broker

\* Variant of lines 247-248 that forgets to set the event.
L247_NoSignal(p) ==
    /\ h[p].pc = "l247"
    /\ SetH(p, [h[p] EXCEPT !.pc = "l250"])
    /\ UNCHANGED <<Globals, threads, signaled, nEvents, nReq>>
    /\ UNCHANGED outside_broker

\* Lines 247-248: set the global shutdown event, if there is one.
L247(p) ==
    /\ h[p].pc = "l247"
    /\ signaled' = IF upstox_ws_shutdown_event # None
                      THEN signaled \cup {upstox_ws_shutdown_event}
                      ELSE signaled
    /\ SetH(p, [h[p] EXCEPT !.pc = "l250"])
    /\ UNCHANGED <<Globals, threads, nEvents, nReq>>
    /\ UNCHANGED outside_broker

\* Line 250, the call: upstox_ws_thread.join(timeout=5.0) is called on the
\* object the global names now.  With the global cleared by another request
\* in the meantime the attribute access raises, and join() on a thread that
\* another request has constructed but not yet started raises RuntimeError;
\* either way the handler ends.
L250(p) ==
    /\ h[p].pc = "l250"
    /\ IF upstox_ws_thread = None \/ threads[upstox_ws_thread].st = "created"
          THEN SetH(p, Return("exception"))
          ELSE SetH(p, [h[p] EXCEPT !.pc = "join", !.target = upstox_ws_thread])
    /\ UNCHANGED <<Globals, threads, signaled, nEvents, nReq>>
    /\ UNCHANGED outside_broker

\* Variant of the join that does not wait: it returns at once, reporting the
\* thread as joined.
JoinReturns_NoWait(p) ==
    /\ h[p].pc = "join"
    /\ SetH(p, [h[p] EXCEPT !.pc = "l251", !.timedout = FALSE])
    /\ UNCHANGED <<Globals, threads, signaled, nEvents, nReq>>
    /\ UNCHANGED outside_broker

\* Line 250, the return of join() because the thread has ended.
JoinReturns(p) ==
    /\ h[p].pc = "join"
    /\ ~is_alive(h[p].target)
    /\ SetH(p, [h[p] EXCEPT !.pc = "l251", !.timedout = FALSE])
    /\ UNCHANGED <<Globals, threads, signaled, nEvents, nReq>>
    /\ UNCHANGED outside_broker

\* Variant of the timed-out join that terminates the thread by force.
JoinTimesOut_Kill(p) ==
    /\ h[p].pc = "join"
    /\ is_alive(h[p].target)
    /\ threads' = [threads EXCEPT ![h[p].target] = ExitedThread]
    /\ SetH(p, [h[p] EXCEPT !.pc = "l251", !.timedout = TRUE])
    /\ UNCHANGED <<Globals, signaled, nEvents, nReq>>
    /\ UNCHANGED outside_broker

\* Line 250, the return of join() after 5 seconds with the thread alive.
JoinTimesOut(p) ==
    /\ h[p].pc = "join"
    /\ is_alive(h[p].target)
    /\ SetH(p, [h[p] EXCEPT !.pc = "l251", !.timedout = TRUE])
    /\ UNCHANGED <<Globals, threads, signaled, nEvents, nReq>>
    /\ UNCHANGED outside_broker

\* Variant of lines 251-255 that keeps the reference to the old thread.
L251_KeepReference(p) ==
    /\ h[p].pc = "l251"
    /\ SetH(p, [h[p] EXCEPT !.pc = "l256"])
    /\ UNCHANGED <<Globals, threads, signaled, nEvents, nReq>>
    /\ UNCHANGED outside_broker

\* Lines 251-255: upstox_ws_thread.is_alive() is read again for the log
\* line (raising if the global was cleared meanwhile), then the reference is
\* dropped whether or not the thread has stopped.
L251(p) ==
    /\ h[p].pc = "l251"
    /\ IF upstox_ws_thread = None
          THEN /\ SetH(p, Return("exception"))
               /\ UNCHANGED upstox_ws_thread
          ELSE /\ SetH(p, [h[p] EXCEPT !.pc = "l256"])
               /\ upstox_ws_thread' = None
    /\ UNCHANGED <<upstox_subscribed_instrument_keys, upstox_ws_shutdown_event,
                   threads, signaled, nEvents, nReq>>
    /\ UNCHANGED outside_broker

\* Line 256: upstox_ws_shutdown_event = None.
L256(p) ==
    /\ h[p].pc = "l256"
    /\ upstox_ws_shutdown_event' = None
    /\ SetH(p, [h[p] EXCEPT !.pc = "l259"])
    /\ UNCHANGED <<upstox_ws_thread, upstox_subscribed_instrument_keys,
                   threads, signaled, nEvents, nReq>>
    /\ UNCHANGED outside_broker

\* Variant of lines 259-260 that adds the requested keys to the desired set
\* instead of replacing it.
NewSubscriptionSet_Merge(req) == req \cup upstox_subscribed_instrument_keys

\* Lines 259-260: the desired set is replaced by the requested set.
NewSubscriptionSet(req) == req

\* The handler does not read its argument again after line 260 (lines 263,
\* 288, 299 and 313 read the global), so the request's set and entry point
\* are dropped from the locals here.  The store supersedes every request
\* that has stored its own set and has not returned yet.
L259(p) ==
    /\ h[p].pc = "l259"
    /\ upstox_subscribed_instrument_keys' = NewSubscriptionSet(h[p].req)
    /\ h' = [q \in Procs |->
                IF q = p
                   THEN [h[p] EXCEPT !.pc = "l263", !.kind = "sub",
                                     !.arg = {}, !.req = {}]
                   ELSE IF h[q].pc \in PostStore
                           THEN [h[q] EXCEPT !.superseded = TRUE]
                           ELSE h[q]]
    /\ UNCHANGED <<upstox_ws_thread, upstox_ws_shutdown_event,
                   threads, signaled, nEvents, nReq>>
    /\ UNCHANGED outside_broker

\* Variant of lines 263-281 that allocates the shutdown event before it asks
\* for the ApiClient and the feed URL, and leaves it behind on failure.
L263_AllocatesFirst(p, haveClient, haveUrl) ==
    /\ h[p].pc = "l263"
    /\ IF upstox_subscribed_instrument_keys = {}
          THEN /\ SetH(p, Return("status"))
               /\ UNCHANGED <<upstox_ws_shutdown_event, nEvents>>
          ELSE IF haveClient /\ haveUrl
                  THEN /\ SetH(p, [h[p] EXCEPT !.pc = "l291"])
                       /\ UNCHANGED <<upstox_ws_shutdown_event, nEvents>>
                  ELSE /\ SetH(p, Return("error"))
                       /\ nEvents' = nEvents + 1
                       /\ upstox_ws_shutdown_event' = nEvents + 1
    /\ UNCHANGED <<upstox_ws_thread, upstox_subscribed_instrument_keys,
                   threads, signaled, nReq>>
    /\ UNCHANGED outside_broker

\* Variant of lines 271-281 that undoes the store of line 260 when the
\* ApiClient or the feed URL is missing, leaving the desired set empty.
L263_ClearsOnFailure(p, haveClient, haveUrl) ==
    /\ h[p].pc = "l263"
    /\ IF upstox_subscribed_instrument_keys = {}
          THEN /\ SetH(p, Return("status"))
               /\ UNCHANGED upstox_subscribed_instrument_keys
          ELSE IF haveClient /\ haveUrl
                  THEN /\ SetH(p, [h[p] EXCEPT !.pc = "l291"])
                       /\ UNCHANGED upstox_subscribed_instrument_keys
                  ELSE /\ SetH(p, Return("error"))
                       /\ upstox_subscribed_instrument_keys' = {}
    /\ UNCHANGED <<upstox_ws_thread, upstox_ws_shutdown_event,
                   threads, signaled, nEvents, nReq>>
    /\ UNCHANGED outside_broker

\* Variant of lines 271-281 that raises instead of emitting the error event
\* when the ApiClient or the feed URL is missing.
L263_Raises(p, haveClient, haveUrl) ==
    /\ h[p].pc = "l263"
    /\ IF upstox_subscribed_instrument_keys = {}
          THEN SetH(p, Return("status"))
          ELSE IF haveClient /\ haveUrl
                  THEN SetH(p, [h[p] EXCEPT !.pc = "l291"])
                  ELSE SetH(p, Return("exception"))
    /\ UNCHANGED <<Globals, threads, signaled, nEvents, nReq>>
    /\ UNCHANGED outside_broker

\* Lines 263-281: with an empty desired set the handler emits a status and
\* returns; otherwise it asks upstox_service for the ApiClient and the feed
\* URL and returns with an error event if either is missing.
L263(p, haveClient, haveUrl) ==
    /\ h[p].pc = "l263"
    /\ IF upstox_subscribed_instrument_keys = {}
          THEN SetH(p, Return("status"))
          ELSE IF haveClient /\ haveUrl
                  THEN SetH(p, [h[p] EXCEPT !.pc = "l291"])
                  ELSE SetH(p, Return("error"))
    /\ UNCHANGED <<Globals, threads, signaled, nEvents, nReq>>
    /\ UNCHANGED outside_broker

\* Line 291: upstox_ws_shutdown_event = threading.Event().
L291(p) ==
    /\ h[p].pc = "l291"
    /\ nEvents' = nEvents + 1
    /\ upstox_ws_shutdown_event' = nEvents + 1
    /\ SetH(p, [h[p] EXCEPT !.pc = "l309", !.myev = nEvents + 1])
    /\ UNCHANGED <<upstox_ws_thread, upstox_subscribed_instrument_keys,
                   threads, signaled, nReq>>
    /\ UNCHANGED outside_broker

\* Line 309: upstox_ws_thread = threading.Thread(...).
L309(p) ==
    /\ h[p].pc = "l309"
    /\ LET t == nThreads + 1 IN
       /\ threads' = [threads EXCEPT ![t] =
              [NoThread EXCEPT !.st = "created", !.own = h[p].myev]]
       /\ upstox_ws_thread' = t
    /\ SetH(p, [h[p] EXCEPT !.pc = "l310"])
    /\ UNCHANGED <<upstox_subscribed_instrument_keys, upstox_ws_shutdown_event,
                   signaled, nEvents, nReq>>
    /\ UNCHANGED outside_broker

\* Variant of line 310 in which start() runs whatever thread the global
\* names once more, also one that has run already.
L310_Restart(p) ==
    /\ h[p].pc = "l310"
    /\ IF upstox_ws_thread # None
          THEN threads' = [threads EXCEPT ![upstox_ws_thread].st = "started"]
          ELSE UNCHANGED threads
    /\ SetH(p, Return("status"))
    /\ UNCHANGED <<Globals, signaled, nEvents, nReq>>
    /\ UNCHANGED outside_broker

\* Lines 310-314: upstox_ws_thread.start() on the object the global names
\* now, then the status event.  start() raises on None (global cleared by
\* another request) and on a thread that was started already.
L310(p) ==
    /\ h[p].pc = "l310"
    /\ IF upstox_ws_thread # None /\ threads[upstox_ws_thread].st = "created"
          THEN /\ threads' = [threads EXCEPT ![upstox_ws_thread].st = "started"]
               /\ SetH(p, Return("status"))
          ELSE /\ UNCHANGED threads
               /\ SetH(p, Return("exception"))
    /\ UNCHANGED <<Globals, signaled, nEvents, nReq>>
    /\ UNCHANGED outside_broker

\* ------------------------------------------------- the background thread
\* Variant of line 299 that binds the instrument list too early, to the
\* desired set of the time the module was loaded.
T299_Stale(t) ==
    /\ threads[t].st = "started"
    /\ threads' = [threads EXCEPT ![t].st = "args", ![t].keys = {}]
    /\ UNCHANGED <<Globals, signaled, nEvents, nReq, h>>
    /\ UNCHANGED outside_broker

\* run_websocket_loop_in_thread, line 299: the instrument list argument is
\* evaluated in the new thread, from the global as it is then.
T299(t) ==
    /\ threads[t].st = "started"
    /\ threads' = [threads EXCEPT ![t].st = "args",
                                  ![t].keys = upstox_subscribed_instrument_keys]
    /\ UNCHANGED <<Globals, signaled, nEvents, nReq, h>>
    /\ UNCHANGED outside_broker

\* Line 301: the shutdown event argument, from the global as it is then;
\* the streaming call begins.
T301(t) ==
    /\ threads[t].st = "args"
    /\ threads' = [threads EXCEPT ![t].st = "connecting",
                                  ![t].ev = upstox_ws_shutdown_event]
    /\ UNCHANGED <<Globals, signaled, nEvents, nReq, h>>
    /\ UNCHANGED outside_broker

\* upstox_service.connect_and_stream_market_data: the session opens and the
\* instrument list it was given is sent as the initial subscription.
OnOpen(t) ==
    /\ threads[t].st = "connecting"
    /\ threads' = [threads EXCEPT ![t].st = "connected"]
    /\ UNCHANGED <<Globals, signaled, nEvents, nReq, h>>
    /\ UNCHANGED outside_broker

\* The streaming loop polls the event it was given, closes the session once
\* it is set, and the thread function returns (lines 305-307).
ObserveShutdown(t) ==
    /\ HoldsSession(t)
    /\ threads[t].ev # None
    /\ threads[t].ev \in signaled
    /\ threads' = [threads EXCEPT ![t] = ExitedThread]
    /\ UNCHANGED <<Globals, signaled, nEvents, nReq, h>>
    /\ UNCHANGED outside_broker

\* The streaming call ends by itself: connect error, upstream close, or an
\* exception, caught at line 303.  Nothing tells the globals.
StreamEnds(t) ==
    /\ HoldsSession(t)
    /\ threads' = [threads EXCEPT ![t] = ExitedThread]
    /\ UNCHANGED <<Globals, signaled, nEvents, nReq, h>>
    /\ UNCHANGED outside_broker

\* ------------------------------------------------- specification
HandlerStep(p) ==
    \/ \E isList \in BOOLEAN, ks \in SUBSET Keys : Subscribe(p, isList, ks)
    \/ \E isList \in BOOLEAN, ks \in SUBSET Keys : Unsubscribe(p, isList, ks)
    \/ \E added \in SUBSET Keys : SaveWatchlist(p, added)
    \/ L245(p)
    \/ L247(p)
    \/ L250(p)
    \/ JoinReturns(p)
    \/ JoinTimesOut(p)
    \/ L251(p)
    \/ L256(p)
    \/ L259(p)
    \/ \E haveClient, haveUrl \in BOOLEAN : L263(p, haveClient, haveUrl)
    \/ L291(p)
    \/ L309(p)
    \/ L310(p)

ThreadStep(t) ==
    \/ T299(t)
    \/ T301(t)
    \/ OnOpen(t)
    \/ ObserveShutdown(t)
    \/ StreamEnds(t)

Next ==
    \/ \E p \in Procs : HandlerStep(p)
    \/ \E t \in Ids : ThreadStep(t)

Spec == Init /\ [][Next]_vars

\* Requests handled one at a time: a request is taken only when no other
\* request is being handled.  The background threads run as before.
SeqNext ==
    \/ \E p \in Procs :
          /\ h[p].pc = "idle" => \A q \in Procs : h[q].pc = "idle"
          /\ HandlerStep(p)
    \/ \E t \in Ids : ThreadStep(t)

SeqSpec == Init /\ [][SeqNext]_vars

\* The steps of a request inside handle_subscribe_upstox_market_data.
HandlerRuns(p) ==
    \/ L245(p)
    \/ L247(p)
    \/ L250(p)
    \/ JoinReturns(p)
    \/ JoinTimesOut(p)
    \/ L251(p)
    \/ L256(p)
    \/ L259(p)
    \/ \E haveClient, haveUrl \in BOOLEAN : L263(p, haveClient, haveUrl)
    \/ L291(p)
    \/ L309(p)
    \/ L310(p)

\* The steps a running background thread takes by itself: it evaluates the
\* arguments of the streaming call and the streaming loop polls its event.
ThreadRuns(t) ==
    \/ T299(t)
    \/ T301(t)
    \/ ObserveShutdown(t)

\* Every line of the handler returns (the join within its timeout), so a
\* request that is being handled keeps taking steps; a started thread keeps
\* running.  Whether a session opens or ends by itself is up to the provider.
FairSpec ==
    /\ Spec
    /\ \A p \in Procs : WF_vars(HandlerRuns(p))
    /\ \A t \in Ids : WF_vars(ThreadRuns(t))

\* The same with requests handled one at a time.
FairSeqSpec ==
    /\ SeqSpec
    /\ \A p \in Procs : WF_vars(HandlerRuns(p))
    /\ \A t \in Ids : WF_vars(ThreadRuns(t))

TypeOK ==
    /\ upstox_ws_thread \in {None} \cup Ids
    /\ upstox_subscribed_instrument_keys \subseteq Keys
    /\ upstox_ws_shutdown_event \in {None} \cup Ids
    /\ signaled \subseteq Ids
    /\ nEvents \in 0..MaxRequests
    /\ nReq \in 0..MaxRequests

\* ------------------------------------------------- TokenManager
\* The methods of TokenManager take no lock, so a call is a sequence of
\* steps, one per read or write of _access_token, _token_expiry or the file,
\* and the steps of different callers interleave.
SetTm(c, r) == tm' = [tm EXCEPT ![c] = r]

Memory == <<access_token, token_expiry>>

\* A caller that has returned `ret`, or raised.
Returned(ret, raised) == [IdleCall EXCEPT !.ret = ret, !.raised = raised]

NoCall == \A c \in Callers : tm[c].pc = "idle"

\* A method is called.
Call(c, method, first, tok, exp_in) ==
    /\ tm[c].pc = "idle"
    /\ SetTm(c, [IdleCall EXCEPT !.pc = first, !.call = method,
                                 !.access_token = tok, !.expires_in = exp_in])
    /\ UNCHANGED <<Memory, token_file, now>>
    /\ UNCHANGED outside_token

CallGetToken(c) == Call(c, "get_token", "g42a", None, 0)

CallSetToken(c, tok, exp_in) == Call(c, "set_token", "s74", tok, exp_in)

CallSaveToken(c, tok, exp_in) == Call(c, "save_token", "s74", tok, exp_in)

CallClearToken(c) == Call(c, "clear_token", "c112", None, 0)

\* TokenManager(): __new__ finds the instance made at line 123 and returns
\* it (lines 26, 31); Python then runs __init__ on the instance returned.
CallTokenManager(c) == Call(c, "TokenManager", "n26", None, 0)

N26(c) ==
    /\ tm[c].pc = "n26"
    /\ SetTm(c, [tm[c] EXCEPT !.pc = "i22"])
    /\ UNCHANGED <<Memory, token_file, now>>
    /\ UNCHANGED outside_token

\* __init__, line 22: self._token_expiry = None.
I22(c) ==
    /\ tm[c].pc = "i22"
    /\ token_expiry' = NoExpiry
    /\ SetTm(c, [tm[c] EXCEPT !.pc = "i23"])
    /\ UNCHANGED <<access_token, token_file, now>>
    /\ UNCHANGED outside_token

\* __init__, line 23: self._access_token = None.
I23(c) ==
    /\ tm[c].pc = "i23"
    /\ access_token' = None
    /\ SetTm(c, Returned(None, FALSE))
    /\ UNCHANGED <<token_expiry, token_file, now>>
    /\ UNCHANGED outside_token

\* get_token, line 42, first operand: self._access_token.
G42a(c) ==
    /\ tm[c].pc = "g42a"
    /\ SetTm(c, [tm[c] EXCEPT !.pc = IF access_token # None THEN "g42b"
                                                            ELSE "g46"])
    /\ UNCHANGED <<Memory, token_file, now>>
    /\ UNCHANGED outside_token

\* Line 42, second operand: self._token_expiry.
G42b(c) ==
    /\ tm[c].pc = "g42b"
    /\ SetTm(c, [tm[c] EXCEPT !.pc = IF token_expiry # NoExpiry THEN "g42c"
                                                                ELSE "g46"])
    /\ UNCHANGED <<Memory, token_file, now>>
    /\ UNCHANGED outside_token

\* Variant of line 42 that does not compare the expiry with the clock.
G42c_NoExpiryCheck(c) ==
    /\ tm[c].pc = "g42c"
    /\ SetTm(c, [tm[c] EXCEPT !.pc = "g43"])
    /\ UNCHANGED <<Memory, token_file, now>>
    /\ UNCHANGED outside_token

\* Line 42, third operand: datetime.now() < self._token_expiry, with
\* _token_expiry read again; the comparison with None raises TypeError, which
\* nothing in get_token catches.
G42c(c) ==
    /\ tm[c].pc = "g42c"
    /\ IF token_expiry = NoExpiry
          THEN SetTm(c, Returned(None, TRUE))
          ELSE SetTm(c, [tm[c] EXCEPT !.pc = IF now < token_expiry THEN "g43"
                                                                   ELSE "g46"])
    /\ UNCHANGED <<Memory, token_file, now>>
    /\ UNCHANGED outside_token

\* Line 43: return self._access_token.
G43(c) ==
    /\ tm[c].pc = "g43"
    /\ SetTm(c, Returned(access_token, FALSE))
    /\ UNCHANGED <<Memory, token_file, now>>
    /\ UNCHANGED outside_token

\* Line 46: os.path.exists(self._token_file); without a file, lines 63-64.
G46(c) ==
    /\ tm[c].pc = "g46"
    /\ IF token_file.st # "absent"
          THEN SetTm(c, [tm[c] EXCEPT !.pc = "g48"])
          ELSE SetTm(c, Returned(None, FALSE))
    /\ UNCHANGED <<Memory, token_file, now>>
    /\ UNCHANGED outside_token

\* Lines 48-49: open and json.load.  A file removed meanwhile, or an empty
\* one, raises; the exception is caught at line 59 and None is returned.
G48(c) ==
    /\ tm[c].pc = "g48"
    /\ IF token_file.st = "json"
          THEN SetTm(c, [tm[c] EXCEPT !.pc = "g52", !.stored_data = token_file])
          ELSE SetTm(c, Returned(None, FALSE))
    /\ UNCHANGED <<Memory, token_file, now>>
    /\ UNCHANGED outside_token

\* Line 52: the stored token is valid if its expires_at is later than now.
G52(c) ==
    /\ tm[c].pc = "g52"
    /\ IF /\ tm[c].stored_data.expires_at # NoExpiry
          /\ tm[c].stored_data.expires_at > now
          THEN SetTm(c, [tm[c] EXCEPT !.pc = "g53"])
          ELSE SetTm(c, Returned(None, FALSE))
    /\ UNCHANGED <<Memory, token_file, now>>
    /\ UNCHANGED outside_token

\* Line 53: self._access_token = stored_data['access_token'].
G53(c) ==
    /\ tm[c].pc = "g53"
    /\ access_token' = tm[c].stored_data.access_token
    /\ SetTm(c, [tm[c] EXCEPT !.pc = "g54"])
    /\ UNCHANGED <<token_expiry, token_file, now>>
    /\ UNCHANGED outside_token

\* Line 54: self._token_expiry = the stored expires_at.
G54(c) ==
    /\ tm[c].pc = "g54"
    /\ token_expiry' = tm[c].stored_data.expires_at
    /\ SetTm(c, [tm[c] EXCEPT !.pc = "g56"])
    /\ UNCHANGED <<access_token, token_file, now>>
    /\ UNCHANGED outside_token

\* Line 56: return self._access_token.
G56(c) ==
    /\ tm[c].pc = "g56"
    /\ SetTm(c, Returned(access_token, FALSE))
    /\ UNCHANGED <<Memory, token_file, now>>
    /\ UNCHANGED outside_token

\* set_token, line 74: self._access_token = access_token.
S74(c) ==
    /\ tm[c].pc = "s74"
    /\ access_token' = tm[c].access_token
    /\ SetTm(c, [tm[c] EXCEPT !.pc = "s75"])
    /\ UNCHANGED <<token_expiry, token_file, now>>
    /\ UNCHANGED outside_token

\* The expiry set_token computes: now + expires_in less the 5 minute buffer.
Expiry(t, exp_in) == t + exp_in - ExpiryBuffer

\* Line 75; set_token returns, save_token goes on to line 98.
S75(c) ==
    /\ tm[c].pc = "s75"
    /\ token_expiry' = Expiry(now, tm[c].expires_in)
    /\ IF tm[c].call = "save_token"
          THEN SetTm(c, [tm[c] EXCEPT !.pc = "w99"])
          ELSE SetTm(c, Returned(None, FALSE))
    /\ UNCHANGED <<access_token, token_file, now>>
    /\ UNCHANGED outside_token

\* save_token, line 99: open(self._token_file, 'w') truncates the file; a
\* failure to open is caught at line 105.
W99(c, ok) ==
    /\ tm[c].pc = "w99"
    /\ IF ok
          THEN /\ token_file' = EmptyFile
               /\ SetTm(c, [tm[c] EXCEPT !.pc = "w100"])
          ELSE /\ UNCHANGED token_file
               /\ SetTm(c, Returned(None, FALSE))
    /\ UNCHANGED <<Memory, now>>
    /\ UNCHANGED outside_token

\* Lines 100-103: the object written pairs the argument access_token with
\* self._token_expiry as it is now; with _token_expiry None the isoformat()
\* call raises, which is caught at line 105, and the file stays as it is.
W100(c) ==
    /\ tm[c].pc = "w100"
    /\ IF token_expiry = NoExpiry
          THEN UNCHANGED token_file
          ELSE token_file' = JsonFile(tm[c].access_token, token_expiry)
    /\ SetTm(c, Returned(None, FALSE))
    /\ UNCHANGED <<Memory, now>>
    /\ UNCHANGED outside_token

\* clear_token, line 112: self._access_token = None.
C112(c) ==
    /\ tm[c].pc = "c112"
    /\ access_token' = None
    /\ SetTm(c, [tm[c] EXCEPT !.pc = "c113"])
    /\ UNCHANGED <<token_expiry, token_file, now>>
    /\ UNCHANGED outside_token

\* Line 113: self._token_expiry = None.
C113(c) ==
    /\ tm[c].pc = "c113"
    /\ token_expiry' = NoExpiry
    /\ SetTm(c, [tm[c] EXCEPT !.pc = "c115"])
    /\ UNCHANGED <<access_token, token_file, now>>
    /\ UNCHANGED outside_token

\* Line 115: os.path.exists(self._token_file).
C115(c) ==
    /\ tm[c].pc = "c115"
    /\ IF token_file.st # "absent"
          THEN SetTm(c, [tm[c] EXCEPT !.pc = "c117"])
          ELSE SetTm(c, Returned(None, FALSE))
    /\ UNCHANGED <<Memory, token_file, now>>
    /\ UNCHANGED outside_token

\* Lines 116-120: os.remove; a failure is caught and logged.
C117(c, ok) ==
    /\ tm[c].pc = "c117"
    /\ token_file' = IF ok THEN NoFile ELSE token_file
    /\ SetTm(c, Returned(None, FALSE))
    /\ UNCHANGED <<Memory, now>>
    /\ UNCHANGED outside_token

\* Time passes, between calls.
Tick ==
    /\ NoCall
    /\ now < MaxTime
    /\ now' = now + 1
    /\ UNCHANGED <<Memory, token_file, tm>>
    /\ UNCHANGED outside_token

TokenCall(c) ==
    \/ CallGetToken(c)
    \/ \E tok \in Tokens, exp_in \in ExpiresIn : CallSetToken(c, tok, exp_in)
    \/ \E tok \in Tokens, exp_in \in ExpiresIn : CallSaveToken(c, tok, exp_in)
    \/ CallClearToken(c)
    \/ CallTokenManager(c)

TokenStep(c) ==
    \/ N26(c)
    \/ I22(c)
    \/ I23(c)
    \/ G42a(c)
    \/ G42b(c)
    \/ G42c(c)
    \/ G43(c)
    \/ G46(c)
    \/ G48(c)
    \/ G52(c)
    \/ G53(c)
    \/ G54(c)
    \/ G56(c)
    \/ S74(c)
    \/ S75(c)
    \/ \E ok \in BOOLEAN : W99(c, ok)
    \/ W100(c)
    \/ C112(c)
    \/ C113(c)
    \/ C115(c)
    \/ \E ok \in BOOLEAN : C117(c, ok)

\* The process starts with no token in memory and with whatever token file
\* an earlier run left: none, one with an expired token, one with a valid
\* token.
TokenInit ==
    /\ BrokerAtRest
    /\ FeedAtRest
    /\ SessionAtRest
    /\ BacktestAtRest
    /\ access_token = None
    /\ token_expiry = NoExpiry
    /\ token_file \in {NoFile, JsonFile(1, 1), JsonFile(1, MaxTime)}
    /\ now = 1
    /\ tm = [c \in Callers |-> IdleCall]

TokenNext ==
    \/ \E c \in Callers : TokenCall(c)
    \/ \E c \in Callers : TokenStep(c)
    \/ Tick

\* Callers in separate threads.
TokenSpec == TokenInit /\ [][TokenNext]_vars

\* One call at a time.
TokenSeqNext ==
    \/ \E c \in Callers : NoCall /\ TokenCall(c)
    \/ \E c \in Callers : TokenStep(c)
    \/ Tick

TokenSeqSpec == TokenInit /\ [][TokenSeqNext]_vars

\* ------------------------------------------------- reading the state
\* Worker p took the step of its handler that leads from position a to b.
Took(p, a, b) == h[p].pc = a /\ h'[p].pc = b

\* No request is being handled.
Quiescent == \A p \in Procs : h[p].pc = "idle"

\* The ShutdownSignal of a unit is the Event allocated for it at line 291.
Signalled(t) == threads[t].own # None /\ threads[t].own \in signaled

\* The state of the ConnectionHandle of unit t.
HandleState(t) ==
    IF ~is_alive(t) THEN "Disconnected"
    ELSE IF Signalled(t) THEN "Closing"
    ELSE IF threads[t].st = "connected" THEN "Connected"
    ELSE "Connecting"

\* ------------------------------------------------- C1
\* C1 (as claimed), for a superseded unit that is slow to stop: a request
\* that is about to start a new unit (line 310) never does so while the unit
\* it superseded is still alive, holding its upstream session; so the new
\* unit is never a second live unit next to the superseded one.
C1_NewUnitOnlyAfterRelease ==
    \A p \in Procs :
       (h[p].pc = "l310" /\ h[p].target # None)
          => /\ ~is_alive(h[p].target)
             /\ ~HoldsSession(h[p].target)

\* C1 (amended): a request constructs a new unit only after the join on the
\* unit it found alive has returned, because that unit ended or because the
\* 5 second timeout passed; in the second case the old unit is abandoned
\* alive, so two live units can exist.
C1_NewUnitOnlyAfterJoin ==
    [][\A p \in Procs :
          Took(p, "l309", "l310")
             => \/ h[p].target = None
                \/ ~is_alive(h[p].target)
                \/ h[p].timedout]_vars

\* A request is about to start a new unit while the unit it joined is alive.
C1_Witness ==
    \E p \in Procs :
       /\ h[p].pc = "l310"
       /\ h[p].target # None
       /\ h[p].timedout
       /\ HoldsSession(h[p].target)

\* ------------------------------------------------- C2
\* C2: no update is lost.  When an unsubscribe or a watchlist save stores its
\* set (line 260), the stored set is the desired set of that moment with the
\* request's keys removed, respectively added: requests that completed since
\* the request read the desired set are not overwritten.
C2_NoLostUpdate ==
    [][\A p \in Procs :
          Took(p, "l259", "l263")
             => upstox_subscribed_instrument_keys' =
                   CASE h[p].kind = "unsub" ->
                            upstox_subscribed_instrument_keys \ h[p].arg
                     [] h[p].kind = "save" ->
                            upstox_subscribed_instrument_keys \cup h[p].arg
                     [] OTHER -> h[p].req]_vars

C4_StoredSetIsRequested ==
    [][\A p \in Procs :
          /\ Took(p, "l259", "l263")
                => LET A == upstox_subscribed_instrument_keys
                       B == h[p].req
                       toAdd == B \ A
                       toRemove == A \ B
                   IN /\ toAdd \cap toRemove = {}
                      /\ upstox_subscribed_instrument_keys'
                            = (A \ toRemove) \cup toAdd
                      /\ upstox_subscribed_instrument_keys' = B
          /\ (Took(p, "idle", "l245") /\ h'[p].kind = "unsub")
                => LET A == upstox_subscribed_instrument_keys
                       toRemove == A \cap h'[p].arg
                   IN /\ toRemove # {}
                      /\ h'[p].req = A \ toRemove]_vars

\* The second request has stored {Y} where the desired set was {X, Y} (the
\* set the unit of the first request read).
C4_Witness ==
    /\ nReq = 2
    /\ upstox_subscribed_instrument_keys = {"Y"}
    /\ \E p \in Procs : h[p].pc = "l263"
    /\ \E t \in Ids : threads[t].keys = {"X", "Y"}

AfterTeardown == {"l256", "l259"}

C7_EmptySetStopsEveryUnit ==
    (upstox_subscribed_instrument_keys = {} /\ Quiescent)
       => \A t \in Ids :
             (HoldsSession(t) /\ threads[t].keys # {})
                => threads[t].ev # None /\ threads[t].ev \in signaled

C9_ConnectionOnlyIfDesired ==
    Quiescent =>
       (upstox_ws_thread # None => upstox_subscribed_instrument_keys # {})

\* ------------------------------------------------- C10
\* C10 (as claimed): when a request starts a new unit (line 310), the handle
\* of the unit it superseded is neither Connected nor Closing.
C10_NoNewHandleWhilePreviousLive ==
    \A p \in Procs :
       (h[p].pc = "l310" /\ h[p].target # None)
          => HandleState(h[p].target) \notin {"Connected", "Closing"}

\* The position of a handle on the cycle: Disconnected before its unit is
\* started, Connecting, Connected, Closing, Disconnected after its unit ended.
Rank(t) ==
    CASE threads[t].st \in {"none", "created"} -> 0
      [] threads[t].st = "exited" -> 4
      [] OTHER -> IF HandleState(t) = "Closing" THEN 3
                  ELSE IF HandleState(t) = "Connected" THEN 2
                  ELSE 1

\* C10 (amended): the handle of a unit only moves forward along Disconnected,
\* Connecting, Connected, Closing, Disconnected, possibly skipping states (a
\* unit signalled before its session opens goes from Connecting to Closing, a
\* unit whose stream ends by itself goes to Disconnected without Closing),
\* and never back; a request that fails fast creates no handle.  A new
\* Connecting handle can be created while the previous handle is Connected
\* or Closing.
C10_HandleMovesForward ==
    [][/\ \A t \in Ids : Rank(t)' >= Rank(t)
       /\ \A p \in Procs : Took(p, "l263", "idle") => UNCHANGED threads]_vars

\* A new handle is Connecting while the handle it superseded is Closing.
C10_Witness ==
    \E t1, t2 \in Ids :
       /\ HandleState(t1) = "Closing"
       /\ HandleState(t2) = "Connecting"
       /\ upstox_ws_thread = t2

\* ------------------------------------------------- C11
\* C11: a caller that has been superseded (another request has stored its
\* set after it) performs no connection-level side effect: no step of its
\* handler changes the thread reference, the event reference, a thread, or
\* an event.
C11_StaleCallerDoesNothing ==
    [][\A p \in Procs :
          (h[p].superseded /\ h'[p] # h[p])
             => UNCHANGED <<upstox_ws_thread, upstox_ws_shutdown_event,
                            threads, signaled, nEvents>>]_vars

\* ------------------------------------------------- C12
\* C12: a join that times out does not hold the request up.  The join
\* returns with the unit alive and untouched; no later step of the request
\* touches that unit (it is abandoned, not terminated); line 255 leaves the
\* thread reference None; the steps after it allocate a fresh, unset event
\* (line 291), construct a new unit (line 309) and start it (line 310); and
\* every request that has reached the join returns.
C12_TimeoutAbandonsAndProceeds ==
    /\ [][\A p \in Procs :
             /\ (Took(p, "join", "l251") /\ is_alive(h[p].target))
                   => h'[p].timedout /\ UNCHANGED threads
             /\ (h[p].timedout /\ h'[p] # h[p])
                   => threads'[h[p].target] = threads[h[p].target]
             /\ (h[p].timedout /\ h[p].pc = "l251" /\ h'[p] # h[p])
                   => upstox_ws_thread' = None
             /\ (h[p].timedout /\ Took(p, "l291", "l309"))
                   => /\ upstox_ws_shutdown_event' = nEvents'
                      /\ nEvents' = nEvents + 1
                      /\ upstox_ws_shutdown_event' \notin signaled'
             /\ (h[p].timedout /\ Took(p, "l309", "l310"))
                   => /\ upstox_ws_thread' # h[p].target
                      /\ threads[upstox_ws_thread'].st = "none"
                      /\ threads'[upstox_ws_thread'].st = "created"
             /\ (h[p].timedout /\ Took(p, "l310", "idle")
                              /\ h'[p].out = "status")
                   => \E t \in Ids : /\ t # h[p].target
                                     /\ threads[t].st = "created"
                                     /\ threads'[t].st = "started"]_vars
    /\ \A p \in Procs : (h[p].pc = "join") ~> (h[p].pc = "idle")

\* A request whose join timed out is about to start the unit it constructed
\* for a non-empty desired set, with a fresh event, the old unit still alive.
C12_Witness ==
    \E p \in Procs :
       /\ h[p].pc = "l310"
       /\ h[p].timedout
       /\ is_alive(h[p].target)
       /\ upstox_subscribed_instrument_keys # {}
       /\ upstox_ws_thread # None
       /\ upstox_ws_thread # h[p].target
       /\ threads[upstox_ws_thread].st = "created"
       /\ upstox_ws_shutdown_event = h[p].myev
       /\ h[p].myev \notin signaled

\* ------------------------------------------------- C13
\* C13: a request that returns from lines 263-281 with a non-empty desired
\* set (no ApiClient, or no feed URL) has emitted an error event and leaves
\* the channel Disconnected: the step allocates no event and constructs or
\* starts no thread, the event reference is None and the thread reference
\* names no live thread.  An event is allocated only by a request that has
\* passed these lines.
C13_FailFast ==
    [][\A p \in Procs :
          /\ (Took(p, "l263", "idle")
                 /\ upstox_subscribed_instrument_keys # {})
                => /\ h'[p].out = "error"
                   /\ UNCHANGED <<Globals, threads, signaled, nEvents>>
                   /\ upstox_ws_shutdown_event' = None
                   /\ \/ upstox_ws_thread' = None
                      \/ HandleState(upstox_ws_thread)' = "Disconnected"
          /\ (h'[p] # h[p] /\ nEvents' # nEvents) => Took(p, "l291", "l309")]_vars

\* The single request ['X'] has failed fast: {X} is stored, an error was
\* emitted, no event was allocated and no thread constructed.
C13_Witness ==
    /\ nReq = 1
    /\ upstox_subscribed_instrument_keys = {"X"}
    /\ \E p \in Procs : h[p].pc = "idle" /\ h[p].out = "error"
    /\ nEvents = 0
    /\ upstox_ws_thread = None
    /\ upstox_ws_shutdown_event = None

C15_NoRollback ==
    [][/\ \A p \in Procs :
             /\ Took(p, "l259", "l263")
                   => upstox_subscribed_instrument_keys' = h[p].req
             /\ Took(p, "l263", "idle")
                   => UNCHANGED upstox_subscribed_instrument_keys
       /\ upstox_subscribed_instrument_keys' # upstox_subscribed_instrument_keys
             => \E p \in Procs : Took(p, "l259", "l263")]_vars

\* The second request, for {Y}, has failed fast after tearing down the unit
\* of the first: the desired set is {Y}.
C15_Witness ==
    /\ nReq = 2
    /\ upstox_subscribed_instrument_keys = {"Y"}
    /\ \E p \in Procs : h[p].pc = "idle" /\ h[p].out = "error"
    /\ upstox_ws_thread = None
    /\ \E t \in Ids : threads[t].st = "exited"
    /\ signaled # {}
    /\ \A t \in Ids : ~is_alive(t)

\* ------------------------------------------------- C16
\* C16: a unit whose stream ends by itself (connect error, upstream close)
\* has exited and holds no session, so its handle is Disconnected; a request
\* that finds the referenced unit ended goes straight to line 256, without
\* setting an event and without a join; and a request that has joined nothing
\* and ends with the status of line 312 has started a new unit.
C16_RetryAfterUpstreamError ==
    /\ [][/\ \A t \in Ids :
                (HoldsSession(t) /\ ~HoldsSession(t)')
                   => /\ ~is_alive(t)'
                      /\ HandleState(t)' = "Disconnected"
          /\ \A p \in Procs :
                /\ (h[p].pc = "l245" /\ h'[p].pc # "l245"
                       /\ upstox_ws_thread # None
                       /\ ~is_alive(upstox_ws_thread))
                      => /\ h'[p].pc = "l256"
                         /\ h'[p].target = None
                         /\ UNCHANGED <<signaled, threads>>
                /\ (Took(p, "l310", "idle") /\ h[p].target = None
                       /\ h'[p].out = "status")
                      => \E t \in Ids : /\ threads[t].st = "created"
                                        /\ threads'[t].st = "started"]_vars
    /\ [](\A p \in Procs :
             (h[p].pc \in {"l256", "l259"} \cup PostStore /\ h[p].target = None)
                => ~h[p].timedout)

\* The unit of the first request has ended without ever being signalled, and
\* the second request, which joined nothing, is about to start the unit it
\* constructed.
C16_Witness ==
    /\ signaled = {}
    /\ \E t \in Ids : threads[t].st = "exited"
    /\ \E p \in Procs :
          /\ h[p].pc = "l310"
          /\ h[p].target = None
          /\ upstox_ws_thread # None
          /\ threads[upstox_ws_thread].st = "created"
          /\ upstox_subscribed_instrument_keys # {}

\* ------------------------------------------------- C17
\* C17: once the shutdown signal of a unit (the event allocated for it at
\* line 291) is set, the unit eventually exits.  Only units whose streaming
\* loop was handed an event to poll are considered.
C17_SignalledUnitExits ==
    \A t \in Ids :
        (Signalled(t) /\ threads[t].ev # None) ~> ~is_alive(t)

\* ------------------------------------------------- C18
\* The caller's step ends a get_token call.
GetReturns(c) ==
    /\ tm[c].call = "get_token"
    /\ tm[c].pc # "idle"
    /\ tm'[c].pc = "idle"

\* The token in memory has not expired.
MemValid ==
    /\ access_token # None
    /\ token_expiry # NoExpiry
    /\ now < token_expiry

\* The token file holds a token that has not expired.
FileValid ==
    /\ token_file.st = "json"
    /\ token_file.expires_at # NoExpiry
    /\ token_file.expires_at > now

\* C18: get_token, called by one caller at a time, does not raise; a token it
\* returns is the token in memory and has not expired at that time (it was
\* there, or has just been loaded from the file); it returns None only when
\* neither memory nor file holds a token that has not expired, and then it
\* has changed neither; the only change it ever makes is to load a valid
\* token from the file.
C18_GetTokenOnlyIfValid ==
    [][\A c \in Callers :
          /\ GetReturns(c)
                => /\ ~tm'[c].raised
                   /\ IF tm'[c].ret # None
                         THEN MemValid' /\ access_token' = tm'[c].ret
                         ELSE /\ ~MemValid
                              /\ ~FileValid
                              /\ UNCHANGED <<Memory, token_file>>
          /\ (tm[c].call = "get_token" /\ tm'[c] # tm[c])
                => /\ UNCHANGED token_file
                   /\ Memory' # Memory
                         => /\ FileValid
                            /\ tm[c].stored_data = token_file
                            /\ access_token' = token_file.access_token]_vars

\* At time 2 a get_token has returned token 1, which memory and file hold
\* with an expiry at the end of time.
C18_Witness ==
    \E c \in Callers :
       /\ tm[c].pc = "idle"
       /\ tm[c].ret = 1
       /\ access_token = 1
       /\ token_expiry = MaxTime
       /\ token_file = JsonFile(1, MaxTime)
       /\ now = 2

\* ------------------------------------------------- C19
\* C19: with callers in separate threads, get_token never raises, and a
\* token it returns is the token in memory, with an expiry that has not
\* passed.
C19_GetTokenSafeUnderConcurrency ==
    [][\A c \in Callers :
          GetReturns(c)
             => /\ ~tm'[c].raised
                /\ tm'[c].ret # None
                      => MemValid' /\ access_token' = tm'[c].ret]_vars

\* ---------------------------------------------------------------------------
\* Tick normalisation: process_upstox_feed (src/app.py 196-229).
\*
\* A provider value that may be missing is a set: {} is Python None, {v} is
\* the value v.  feed_response maps the instrument keys of one message to
\* their feed data; emitted is the sequence of ticks handed to emit_callback
\* for the message being processed, pending the instruments still to visit.
\* ---------------------------------------------------------------------------

\* int(time.time() * 1000) and ltpc.ltt * 1000
Millis == 1000

Opt(S) == {{}} \cup {{v} : v \in S}

Val(o) == CHOOSE v \in o : TRUE

\* Python truthiness of an optional number: neither None nor 0.
Truthy(o) == o # {} /\ o # {0}

Ltpcs ==
    [ltp : Opt({0, 2}), cp : Opt({1}), ch : Opt({0}),
     chp : Opt({0}), ltt : Opt({2})]

Ohlcs == [open : {{0}}, high : {{2}}, low : {{0}}, close : {{2}}]

FeedData == [ltpc : Opt(Ltpcs), ohlc : Opt(Ohlcs)]

FeedResponses ==
    UNION {[dom -> FeedData] : dom \in (SUBSET Keys) \ {{}}}

\* Lines 209-215: the entries added to the tick when ltpc is truthy.
LtpcEntries(ltpc) ==
    LET change ==
            IF ltpc.ch # {} THEN ltpc.ch
            ELSE IF Truthy(ltpc.ltp) /\ Truthy(ltpc.cp)
                 THEN {Val(ltpc.ltp) - Val(ltpc.cp)}
                 ELSE {0}
        entries ==
            ("last_price" :> ltpc.ltp) @@ ("change" :> change) @@
            ("percentage_change" :> ltpc.chp) @@
            ("last_traded_time" :> ltpc.ltt)
    IN  IF Truthy(ltpc.ltt)
        THEN ("timestamp" :> Val(ltpc.ltt) * Millis) @@ entries
        ELSE entries

\* Lines 218-224: the entry added to the tick when ohlc is truthy.
OhlcEntries(ohlc) ==
    "ohlc" :> [open |-> ohlc.open, high |-> ohlc.high,
               low |-> ohlc.low, close |-> ohlc.close]

\* Lines 203-224: the tick built for one item of feed_response.feeds.
BuildTick(instrument_key, feed_data) ==
    LET tick ==
            ("instrument_key" :> instrument_key) @@
            ("timestamp" :> now * Millis)
        withLtpc ==
            IF feed_data.ltpc # {}
            THEN LtpcEntries(Val(feed_data.ltpc)) @@ tick
            ELSE tick
    IN  IF feed_data.ohlc # {}
        THEN OhlcEntries(Val(feed_data.ohlc)) @@ withLtpc
        ELSE withLtpc

\* on_upstox_message_socketio (283-286) hands one message to
\* process_upstox_feed; the stream delivers messages one after another.
OnMessage ==
    /\ DOMAIN feed_response = {}
    /\ \E msg \in FeedResponses :
        /\ feed_response' = msg
        /\ pending' = DOMAIN msg
    /\ emitted' = << >>
    /\ UNCHANGED <<listeners, received>>
    /\ UNCHANGED outside_feed

\* socketio.emit(event, data) without a recipient: the one payload goes to
\* every client connected at the time of the call.
Broadcast(data) ==
    /\ received' = [l \in Listeners |->
                        IF l \in listeners THEN Append(received[l], data)
                        ELSE received[l]]
    /\ UNCHANGED listeners

\* Variant of the loop iteration that emits to one client only.
ProcessInstrument_Unicast(instrument_key) ==
    /\ instrument_key \in pending
    /\ LET tick == BuildTick(instrument_key, feed_response[instrument_key])
       IN  /\ emitted' = Append(emitted, tick)
           /\ received' = [l \in Listeners |->
                  IF listeners # {} /\ l = CHOOSE m \in listeners : TRUE
                  THEN Append(received[l], tick)
                  ELSE received[l]]
           /\ UNCHANGED listeners
    /\ pending' = pending \ {instrument_key}
    /\ UNCHANGED feed_response
    /\ UNCHANGED outside_feed

\* One iteration of the loop of line 202: build the tick and emit it (226);
\* emit_callback is socketio.emit (line 285).
ProcessInstrument(instrument_key) ==
    /\ instrument_key \in pending
    /\ LET tick == BuildTick(instrument_key, feed_response[instrument_key])
       IN  /\ emitted' = Append(emitted, tick)
           /\ Broadcast(tick)
    /\ pending' = pending \ {instrument_key}
    /\ UNCHANGED feed_response
    /\ UNCHANGED outside_feed

\* A browser session opens its Socket.IO connection, or closes it.
Connect(l) ==
    /\ l \notin listeners
    /\ listeners' = listeners \cup {l}
    /\ UNCHANGED <<feed_response, pending, emitted, received>>
    /\ UNCHANGED outside_feed

Disconnect(l) ==
    /\ l \in listeners
    /\ listeners' = listeners \ {l}
    /\ received' = [received EXCEPT ![l] = << >>]
    /\ UNCHANGED <<feed_response, pending, emitted>>
    /\ UNCHANGED outside_feed

\* The loop of line 202 is exhausted: process_upstox_feed returns and its
\* argument and the ticks it built are gone.
FeedReturns ==
    /\ DOMAIN feed_response # {}
    /\ pending = {}
    /\ feed_response' = << >>
    /\ emitted' = << >>
    /\ received' = [l \in Listeners |-> << >>]
    /\ UNCHANGED <<pending, listeners>>
    /\ UNCHANGED outside_feed

FeedNext ==
    \/ OnMessage
    \/ \E instrument_key \in Keys : ProcessInstrument(instrument_key)
    \/ FeedReturns
    \/ \E l \in Listeners : Connect(l) \/ Disconnect(l)

FeedSpec == Init /\ [][FeedNext]_vars

\* The tick fields of the claim and what the provider supplied for them.
TickFields == {"last_price", "change", "percentage_change", "ohlc"}

Supplied(feed_data, field) ==
    IF field = "ohlc" THEN feed_data.ohlc
    ELSE IF feed_data.ltpc = {} THEN {}
    ELSE IF field = "last_price" THEN Val(feed_data.ltpc).ltp
    ELSE IF field = "change" THEN Val(feed_data.ltpc).ch
    ELSE Val(feed_data.ltpc).chp

Emitted(tick, field) ==
    IF field = "ohlc" THEN {tick[field]} ELSE tick[field]

\* C20: every field of an emitted tick was supplied by the provider for that
\* instrument and carries the supplied value, so that a field the provider
\* left out is absent from the tick and an emitted 0 is a reported 0.
C20_OmitsUnpopulatedFields ==
    \A i \in 1..Len(emitted) :
        LET tick == emitted[i]
            feed_data == feed_response[tick["instrument_key"]]
        IN  \A field \in TickFields \cap DOMAIN tick :
                /\ Supplied(feed_data, field) # {}
                /\ Emitted(tick, field) = Supplied(feed_data, field)

\* ------------------------------------------------- C21
\* The ticks a client has received for the message being processed.
TicksFor(seq, instrument_key) ==
    {i \in 1..Len(seq) : seq[i]["instrument_key"] = instrument_key}

\* C21: the tick built for an instrument is delivered, as built, to every
\* client connected at the time; two clients never hold different ticks for
\* the same instrument of a message; and when the message has been processed
\* exactly one tick has been emitted for each of its instruments.
C21_BroadcastIdentical ==
    [][ /\ Len(emitted') = Len(emitted) + 1 =>
            \A l \in listeners :
                received'[l] = Append(received[l], emitted'[Len(emitted')])
        /\ \A l, m \in Listeners :
            \A i \in 1..Len(received'[l]), j \in 1..Len(received'[m]) :
                received'[l][i]["instrument_key"]
                    = received'[m][j]["instrument_key"]
                => received'[l][i] = received'[m][j]
        /\ (pending' = {} /\ DOMAIN feed_response' # {}) =>
            \A k \in DOMAIN feed_response' :
                Cardinality(TicksFor(emitted', k)) = 1
      ]_vars

\* Two connected clients both hold the tick of "X" with last price 2, the
\* first of the two ticks of a message for "X" and "Y".
C21_Witness ==
    /\ listeners = Listeners
    /\ DOMAIN feed_response = {"X", "Y"}
    /\ pending = {}
    /\ Len(emitted) = 2
    /\ emitted[1]["instrument_key"] = "X"
    /\ "last_price" \in DOMAIN emitted[1]
    /\ emitted[1]["last_price"] = {2}
    /\ \A l \in Listeners : received[l] = emitted

\* ------------------------------------------------- C22
\* What a get_token called now, alone, returns: the token in memory if it
\* has not expired, else the token of the file if that has not expired.
Retrievable ==
    IF MemValid THEN access_token
    ELSE IF FileValid THEN token_file.access_token
    ELSE None

\* C22: a TokenManager() call leaves the token that get_token returns as it
\* is.
C22_SingletonKeepsToken ==
    [][\A c \in Callers :
          (tm[c].call = "TokenManager" /\ tm'[c] # tm[c])
             => Retrievable' = Retrievable]_vars

\* ------------------------------------------------- C23
\* C23: when clear_token returns, a get_token called next returns None,
\* whether or not the token file could be removed.
C23_ClearedMeansNone ==
    [][\A c \in Callers :
          (tm[c].call = "clear_token" /\ tm[c].pc # "idle"
                                       /\ tm'[c].pc = "idle")
             => Retrievable' = None]_vars

\* ------------------------------------------------- C24
\* C24: a unit whose streaming call has begun polls the shutdown event that
\* the request which started it allocated for it at line 291.
C24_UnitPollsItsOwnSignal ==
    \A t \in Ids :
        HoldsSession(t) => threads[t].ev = threads[t].own

\* ------------------------------------------------- C25
\* Worker p takes a request that returns at once, having emitted `out`.
ReturnsAtOnce(p, out) ==
    /\ h[p].pc = "idle"
    /\ nReq' = nReq + 1
    /\ h'[p].pc = "idle"
    /\ h'[p].out = out

\* Worker p takes an unsubscribe request that goes on into the subscribe
\* handler.
UnsubscribeGoesOn(p) ==
    /\ h[p].pc = "idle"
    /\ h'[p].pc = "l245"
    /\ h'[p].kind = "unsub"

\* C25: an unsubscribe request goes on into the subscribe handler only if
\* one of its keys is in the desired set; otherwise it returns at once with
\* a status event, and the desired set, the thread reference, the shutdown
\* event, every thread and every event are as before.
C25_UnsubscribeOfNothing ==
    [][\A p \in Procs :
          /\ UnsubscribeGoesOn(p)
                => h'[p].arg \cap upstox_subscribed_instrument_keys # {}
          /\ ReturnsAtOnce(p, "no change")
                => UNCHANGED <<Globals, threads, signaled, nEvents>>]_vars

\* Both requests have returned, the later with the status event of an
\* unsubscribe that changed nothing; the unit the earlier request started is
\* connected, its event was never set and no second event was allocated.
C25_Witness ==
    /\ nReq = 2
    /\ \A p \in Procs : h[p].pc = "idle"
    /\ h[1].out = "no change"
    /\ signaled = {}
    /\ nEvents = 1
    /\ upstox_ws_thread = 1
    /\ threads[1].st = "connected"
    /\ upstox_subscribed_instrument_keys # {}

KiteFields == {"kite_access_token", "kite_public_token", "user_profile"}

UpstoxFields == {"upstox_authenticated", "upstox_access_token",
                 "upstox_profile", "upstox_token_expiry"}

\* expires_in of the Upstox token response, in units of the clock.
SessionExpiresIn == {1}

\* session.get(key): None for a key that is not there.
SGet(key) == IF key \in DOMAIN session THEN session[key] ELSE None

\* The dict d with the items of `items` stored over it.
Stored(items, d) == items @@ d

\* The dict d without the key `key` (session.pop(key, None)).
Popped(key, d) == [k \in (DOMAIN d) \ {key} |-> d[k]]

Ended(route, outcome) == last' = [route |-> route, outcome |-> outcome]

\* require_login, lines 104-112, around a socket handler: what becomes of the
\* request.
RequireLogin ==
    LET kite_authenticated == SGet("kite_access_token") # None
        upstox_authenticated == SGet("upstox_authenticated") # 0
    IN  IF ~(kite_authenticated \/ upstox_authenticated)
        THEN "redirect"
        ELSE "body"

ProtectedHandlers ==
    {"subscribe_upstox_market_data", "unsubscribe_upstox_market_data"}

\* A socket event for a handler behind require_login (lines 231-233,
\* 316-318); the handler bodies do not touch the session.
Protected(handler) ==
    /\ Ended(handler, RequireLogin)
    /\ UNCHANGED session
    /\ UNCHANGED outside_session

\* index, lines 352-399: an expired Upstox token clears the flag; otherwise a
\* missing Upstox profile is fetched with the access token, which may fail.
Index(fetched) ==
    /\ LET upstox_authenticated == SGet("upstox_authenticated") # 0
           expiry == SGet("upstox_token_expiry")
       IN  IF ~upstox_authenticated
           THEN UNCHANGED session
           ELSE IF expiry # None /\ expiry <= now
                THEN session' = Stored("upstox_authenticated" :> 0, session)
                ELSE IF /\ SGet("upstox_profile") = None
                        /\ SGet("upstox_access_token") # None
                        /\ fetched
                     THEN session' = Stored("upstox_profile" :> 1, session)
                     ELSE UNCHANGED session
    /\ Ended("index", "body")
    /\ UNCHANGED outside_session

\* Variant of login that clears the session and restores nothing.
Login_ClearsAll ==
    /\ session' = EmptySession
    /\ Ended("login", "body")
    /\ UNCHANGED outside_session

\* login, lines 405-418: the Upstox items are read, the session is cleared,
\* and the items are stored again if the flag was set.
Login ==
    /\ LET upstox_authenticated == SGet("upstox_authenticated")
           upstox_access_token == SGet("upstox_access_token")
           upstox_profile == SGet("upstox_profile")
           upstox_token_expiry == SGet("upstox_token_expiry")
       IN  IF upstox_authenticated # 0
           THEN session' =
                  Stored(("upstox_authenticated" :> upstox_authenticated) @@
                         ("upstox_access_token" :> upstox_access_token) @@
                         ("upstox_profile" :> upstox_profile) @@
                         ("upstox_token_expiry" :> upstox_token_expiry),
                         EmptySession)
           ELSE session' = EmptySession
    /\ Ended("login", "body")
    /\ UNCHANGED outside_session

\* callback, lines 437-471: without a request token, or when the session
\* cannot be generated, nothing is stored; otherwise the Kite tokens are
\* stored and the profile is stored or, if it cannot be fetched, removed.
Callback(granted, public_token, profiled) ==
    /\ IF ~granted
       THEN UNCHANGED session
       ELSE LET tokens == Stored(("kite_access_token" :> 1) @@
                                 ("kite_public_token" :> public_token),
                                 session)
            IN  IF profiled
                THEN session' = Stored("user_profile" :> 1, tokens)
                ELSE session' = Popped("user_profile", tokens)
    /\ Ended("callback", "body")
    /\ UNCHANGED outside_session

\* logout, lines 532-536.
Logout ==
    /\ session' = EmptySession
    /\ Ended("logout", "body")
    /\ UNCHANGED outside_session

\* login_upstox, lines 863-874: the Kite items are read, the session is
\* cleared, and the items are stored again if there was an access token.
LoginUpstox ==
    /\ LET kite_access_token == SGet("kite_access_token")
           kite_public_token == SGet("kite_public_token")
           user_profile == SGet("user_profile")
       IN  IF kite_access_token # None
           THEN session' =
                  Stored(("kite_access_token" :> kite_access_token) @@
                         ("kite_public_token" :> kite_public_token) @@
                         ("user_profile" :> user_profile),
                         EmptySession)
           ELSE session' = EmptySession
    /\ Ended("login_upstox", "body")
    /\ UNCHANGED outside_session

\* upstox_callback, lines 905-985: without a code or an access token nothing
\* is stored; otherwise the Kite items read at the start are stored again if
\* there was an access token, the Upstox items are stored with the expiry
\* now + expires_in, and the profile is stored if it can be fetched.
UpstoxCallback(granted, expires_in, profiled) ==
    /\ IF ~granted
       THEN UNCHANGED session
       ELSE LET kite_access_token == SGet("kite_access_token")
                kite ==
                    IF kite_access_token # None
                    THEN Stored(("kite_access_token" :> kite_access_token) @@
                                ("kite_public_token"
                                    :> SGet("kite_public_token")) @@
                                ("user_profile" :> SGet("user_profile")),
                                session)
                    ELSE session
                upstox ==
                    Stored(("upstox_access_token" :> 1) @@
                           ("upstox_refresh_token" :> 1) @@
                           ("upstox_token_expiry" :> now + expires_in) @@
                           ("upstox_authenticated" :> 1),
                           kite)
            IN  IF profiled
                THEN session' = Stored("upstox_profile" :> 1, upstox)
                ELSE session' = upstox
    /\ Ended("upstox_callback", "body")
    /\ UNCHANGED outside_session

SessionNext ==
    \/ \E handler \in ProtectedHandlers : Protected(handler)
    \/ \E fetched \in BOOLEAN : Index(fetched)
    \/ Login
    \/ \E granted, profiled \in BOOLEAN, public_token \in {None, 1} :
          Callback(granted, public_token, profiled)
    \/ Logout
    \/ LoginUpstox
    \/ \E granted, profiled \in BOOLEAN, expires_in \in SessionExpiresIn :
          UpstoxCallback(granted, expires_in, profiled)
    \/ Tick

SessionSpec == Init /\ [][SessionNext]_vars

\* ------------------------------------------------- C28
\* The session holds a Kite access token.
KiteHeld == SGet("kite_access_token") # None

\* The session holds an Upstox authentication that has not expired.
UpstoxValid ==
    /\ SGet("upstox_authenticated") # 0
    /\ SGet("upstox_token_expiry") # None
    /\ now < SGet("upstox_token_expiry")

\* C28: the body of a handler behind require_login has run only for a session
\* that holds a Kite access token or an Upstox authentication that has not
\* expired.
C28_BodyOnlyIfLoggedIn ==
    [][(/\ now' = now
        /\ last'.route \in ProtectedHandlers
        /\ last'.outcome = "body")
          => (KiteHeld \/ UpstoxValid)]_vars

\* ------------------------------------------------- C29
\* The session reads the same for every key of `fields` after the step.
Kept(fields) ==
    \A key \in fields :
        (IF key \in DOMAIN session' THEN session'[key] ELSE None) = SGet(key)

\* C29: login empties the session, except that with the Upstox flag set the
\* flag, access token, profile and expiry read as before; login_upstox and
\* upstox_callback leave the Kite access token, public token and profile
\* reading as before when there was a Kite access token; logout leaves the
\* session empty.
C29_LoginKeepsTheOtherBroker ==
    [][/\ (last'.route = "login" /\ SGet("upstox_authenticated") # 0)
            => Kept(UpstoxFields)
       /\ last'.route = "login"
            => DOMAIN session' \subseteq UpstoxFields
       /\ (last'.route \in {"login_upstox", "upstox_callback"} /\ KiteHeld)
            => Kept(KiteFields)
       /\ last'.route = "logout"
            => session' = EmptySession]_vars

\* A session logged in with Upstox has been through login: the four Upstox
\* items are there, profile included, and nothing else is.
C29_Witness ==
    /\ last.route = "login"
    /\ DOMAIN session = UpstoxFields
    /\ session["upstox_authenticated"] = 1
    /\ session["upstox_access_token"] = 1
    /\ session["upstox_profile"] = 1
    /\ session["upstox_token_expiry"] = 2

\* ------------------------------------------------- backtest
\* BacktestService (src/backtest_service.py). A datetime is its day and
\* whether it carries a time zone; prices are left out, the position logic
\* of calculate_metrics reads only dates.
MaxDate == 5

Days == 1..MaxDate

Datetime(t, tz) == [t |-> t, tz |-> tz]

\* Python compares a naive and an aware datetime as unequal, so membership
\* in a list of datetimes is membership of the record.
Naive(d) == [d EXCEPT !.tz = FALSE]

\* str(timestamp) in the strategies and datetime.fromisoformat in
\* calculate_metrics: the text carries the day and the UTC offset, if any.
Str(d) == <<d.t, IF d.tz THEN "+05:30" ELSE "">>

FromIsoformat(text) == Datetime(text[1], text[2] # "")

Labels(s) == {s[i] : i \in DOMAIN s}

\* The rows get_historical_data hands over: distinct days, in the order it
\* gives them (run_backtest does not sort).
Frames ==
    {rows \in UNION {[1..n -> Days] : n \in 1..MaxDate} :
        \A i, j \in DOMAIN rows : i # j => rows[i] # rows[j]}

\* df['position'] = df['signal'].diff(); the buy signals are the index
\* labels where it is 1, the sell signals those where it is -1.
BuySignals(index, signal) ==
    {index[i] : i \in {k \in DOMAIN index : k > 1 /\ signal[k] - signal[k - 1] = 1}}

SellSignals(index, signal) ==
    {index[i] : i \in {k \in DOMAIN index : k > 1 /\ signal[k] - signal[k - 1] = -1}}

\* sorted(list(set(...)))
RECURSIVE Sorted(_)
Sorted(S) ==
    IF S = {} THEN << >>
    ELSE LET first == CHOOSE d \in S : \A e \in S : d.t <= e.t
         IN  <<first>> \o Sorted(S \ {first})

\* df.index.asof(date): the last label not after the date, or NaT.
NaT == None

Asof(d) ==
    LET before == {x \in Labels(df_index) : x.t <= d.t}
    IN  IF before = {} THEN NaT
        ELSE CHOOSE x \in before : \A y \in before : y.t <= x.t

\* run_backtest: builds df from the rows, runs the strategy on a copy and
\* calls calculate_metrics, which reads the signal dates back, makes the
\* index naive, sorts the signal dates and resets both positions.
RunBacktest ==
    /\ bt.pc = "idle"
    /\ \E rows \in Frames, aware \in BOOLEAN :
         \E signal \in [DOMAIN rows -> {0, 1}] :
           LET index == [i \in DOMAIN rows |-> Datetime(rows[i], aware)]
               buy   == {FromIsoformat(Str(d)) : d \in BuySignals(index, signal)}
               sell  == {FromIsoformat(Str(d)) : d \in SellSignals(index, signal)}
           IN  /\ df_index' = [i \in DOMAIN index |-> Naive(index[i])]
               /\ buy_signals_dates' = buy
               /\ sell_signals_dates' = sell
               /\ all_signal_dates' = Sorted(buy \cup sell)
    /\ current_position' = 0
    /\ printed' = << >>
    /\ position_open' = FALSE
    /\ entry_date' = None
    /\ trades' = << >>
    /\ bt' = [pc |-> "rows", i |-> 1]
    /\ UNCHANGED outside_backtest

\* One turn of the loop over df.iterrows() that draws the equity curve.
EquityRow ==
    /\ bt.pc = "rows"
    /\ LET date_idx == df_index[bt.i]
       IN  IF date_idx \in buy_signals_dates /\ current_position = 0
           THEN /\ current_position' = 1
                /\ printed' = Append(printed, [line |-> "BUY", date |-> date_idx])
           ELSE IF date_idx \in sell_signals_dates /\ current_position = 1
           THEN /\ current_position' = 0
                /\ printed' = Append(printed, [line |-> "SELL", date |-> date_idx])
           ELSE UNCHANGED <<current_position, printed>>
    /\ bt' = IF bt.i < Len(df_index)
             THEN [bt EXCEPT !.i = @ + 1]
             ELSE [pc |-> "signals", i |-> 1]
    /\ UNCHANGED <<df_index, buy_signals_dates, sell_signals_dates,
                   all_signal_dates, position_open, entry_date, trades>>
    /\ UNCHANGED outside_backtest

\* One turn of the loop over all_signal_dates that fills the trade list.
SignalDate ==
    /\ bt.pc = "signals"
    /\ bt.i <= Len(all_signal_dates)
    /\ LET date_signal == all_signal_dates[bt.i]
           current_date_naive == Naive(date_signal)
       IN  IF /\ current_date_naive \notin Labels(df_index)
              /\ Asof(current_date_naive) = NaT
           THEN UNCHANGED <<position_open, entry_date, trades>>
           ELSE IF current_date_naive \in buy_signals_dates /\ ~position_open
           THEN /\ entry_date' = current_date_naive
                /\ position_open' = TRUE
                /\ UNCHANGED trades
           ELSE IF current_date_naive \in sell_signals_dates /\ position_open
           THEN /\ trades' = Append(trades, [entry_date |-> entry_date,
                                             exit_date |-> current_date_naive])
                /\ position_open' = FALSE
                /\ UNCHANGED entry_date
           ELSE UNCHANGED <<position_open, entry_date, trades>>
    /\ bt' = [bt EXCEPT !.i = @ + 1]
    /\ UNCHANGED <<df_index, buy_signals_dates, sell_signals_dates,
                   all_signal_dates, current_position, printed>>
    /\ UNCHANGED outside_backtest

\* The loop over the signal dates is over: calculate_metrics is about to
\* build its metrics from the trade list.
Returning == bt.pc = "signals" /\ bt.i > Len(all_signal_dates)

\* "total_trades": len(trades), 0 when there are no trades.
TotalTrades == Len(trades)

\* calculate_metrics and run_backtest return.
MetricsReturn ==
    /\ Returning
    /\ df_index' = << >>
    /\ buy_signals_dates' = {}
    /\ sell_signals_dates' = {}
    /\ all_signal_dates' = << >>
    /\ current_position' = 0
    /\ printed' = << >>
    /\ position_open' = FALSE
    /\ entry_date' = None
    /\ trades' = << >>
    /\ bt' = [pc |-> "idle", i |-> 0]
    /\ UNCHANGED outside_backtest

BacktestNext ==
    \/ RunBacktest
    \/ EquityRow
    \/ SignalDate
    \/ MetricsReturn

BacktestSpec == Init /\ [][BacktestNext]_vars

\* The buy-then-sell pairs the signals complete when they are taken in
\* order of their day: a buy while flat opens, a sell while long completes.
RECURSIVE PairsFrom(_, _, _)
PairsFrom(days, k, long) ==
    IF k > Len(days) THEN 0
    ELSE IF days[k] \in {d.t : d \in buy_signals_dates} /\ ~long
    THEN PairsFrom(days, k + 1, TRUE)
    ELSE IF days[k] \in {d.t : d \in sell_signals_dates} /\ long
    THEN 1 + PairsFrom(days, k + 1, FALSE)
    ELSE PairsFrom(days, k + 1, long)

CompletedPairs ==
    PairsFrom([k \in DOMAIN all_signal_dates |-> all_signal_dates[k].t], 1, FALSE)

\* The signals on which the trade loop has opened or closed its position.
TradeSignals ==
    {[line |-> "BUY", date |-> trades[k].entry_date] : k \in DOMAIN trades}
      \cup {[line |-> "SELL", date |-> trades[k].exit_date] : k \in DOMAIN trades}
      \cup (IF position_open THEN {[line |-> "BUY", date |-> entry_date]} ELSE {})

\* C30: the recorded trades never overlap, each has its entry before its
\* exit, a trade is opened only after every recorded trade was closed, and
\* when calculate_metrics is about to return, total_trades is the number of
\* buy-then-sell pairs the signals complete and the equity-curve loop has
\* opened and closed its position on the same signals as the trade loop.
C30_TwoStateMachine ==
    /\ \A k \in DOMAIN trades : trades[k].entry_date.t < trades[k].exit_date.t
    /\ \A j, k \in DOMAIN trades :
         j < k => trades[j].exit_date.t < trades[k].entry_date.t
    /\ position_open =>
         \A k \in DOMAIN trades : trades[k].exit_date.t < entry_date.t
    /\ Returning =>
         /\ TotalTrades = CompletedPairs
         /\ Labels(printed) = TradeSignals

====
